---- MODULE Spec2Model ----
(***************************************************************************)
(* r2md: the dependency graph and its topological order (src/deps.rs),     *)
(* the token window splitter (src/chunker.rs) and the prompt/completion    *)
(* sampler (src/training.rs).                                              *)
(*                                                                         *)
(* A text is a sequence of one-character strings, so that every string     *)
(* operation of the source (trim, split, replace, ends_with, lines) is     *)
(* computed character by character.  An Option is a sequence of length 0   *)
(* (None) or 1 (Some).                                                     *)
(***************************************************************************)
EXTENDS Integers, Sequences, FiniteSets, TLC

VARIABLES
    pc,           \* "start" before the operation under study has run, "done" after
    files,        \* &[FileEntry]: the input file list
    imports,      \* per input file, the Vec<String> extract_dependencies returned
    graph,        \* the DiGraph build_dependency_graph returned
    result,       \* the value the operation returned
    chunks,       \* Vec<CodeChunk>: the input of tokenize_and_split
    max_context,  \* its max_context
    windows,      \* per chunk it pushed: the input chunk and the token range
    cursor,       \* tokenize_and_split step by step: the chunk at hand and idx
    split_ratio,  \* the split_ratio of produce_training_json
    env,          \* what the run finds outside: the tokenizer files, the disk
    disk,         \* the destination file of produce_training_json
    source,       \* the content, the extension and the parser of one parse_file_to_chunks call
    walk,         \* collect_files_parallel: the walker's path list and the files behind it
    slots,        \* per path, what its worker has produced so far
    finished      \* the paths in the order their workers finished

depsVars == <<files, imports, graph>>
splitVars == <<chunks, max_context, windows, cursor>>
trainVars == <<split_ratio, env, disk>>
parseVars == <<source>>
runVars == <<walk, slots, finished>>
vars == <<pc, result, depsVars, splitVars, trainVars, parseVars, runVars>>

(***************************************************************************)
(* Bounds of the model.                                                    *)
(***************************************************************************)
MaxFiles == 3        \* files in the list handed to sort_files_by_dependency
MaxImports == 3      \* import lines in all the files of one list together
MaxLangFiles == 2    \* files in a list of mixed languages
MaxChunks == 2       \* chunks in the list handed to tokenize_and_split
MaxChars == 4        \* characters in all the chunks of one list together
MaxContext == 3      \* the largest max_context
MaxTrainFiles == 2   \* files in the list handed to produce_training_json
MaxItems == 2        \* top-level items in a program handed to an adapter
MaxLines == 3        \* lines in a text handed to the line fallback
MaxPaths == 2        \* paths in the walker's list
MaxNames == 2        \* file names that an input directory may hold

(***************************************************************************)
(* Strings.                                                                *)
(***************************************************************************)
Str(s) == [i \in 1..Len(s) |-> SubSeq(s, i, i)]

None == <<>>
Some(v) == <<v>>

Min(S) == CHOOSE x \in S : \A y \in S : x <= y
Max(S) == CHOOSE x \in S : \A y \in S : x >= y
MinOr0(S) == IF S = {} THEN 0 ELSE Min(S)
MaxOr0(S) == IF S = {} THEN 0 ELSE Max(S)

Range(seq) == {seq[i] : i \in 1..Len(seq)}

BoundedSeq(S, n) == UNION {[1..k -> S] : k \in 0..n}

Reverse(seq) == [i \in 1..Len(seq) |-> seq[Len(seq) + 1 - i]]

RECURSIVE Flatten(_)
Flatten(seqs) == IF seqs = <<>> THEN <<>> ELSE Head(seqs) \o Flatten(Tail(seqs))

Whitespace == {" ", "\t", "\r", "\n"}

IsPrefixAt(s, p, i) ==
    /\ i >= 1
    /\ i + Len(p) - 1 <= Len(s)
    /\ SubSeq(s, i, i + Len(p) - 1) = p

\* str::starts_with
StartsWith(s, p) == IsPrefixAt(s, p, 1)

\* str::ends_with
EndsWith(s, p) == Len(p) <= Len(s) /\ IsPrefixAt(s, p, Len(s) - Len(p) + 1)

\* str::find: the first match of the non-empty pattern p, 0 when there is none
Find(s, p) == MinOr0({i \in 1..Len(s) : IsPrefixAt(s, p, i)})

\* str::split on a non-empty string pattern: the pieces between the
\* non-overlapping matches, found left to right (i is the first match)
RECURSIVE Split(_, _)
SplitAt(s, p, i) ==
    IF i = 0 THEN <<s>>
    ELSE <<SubSeq(s, 1, i - 1)>> \o Split(SubSeq(s, i + Len(p), Len(s)), p)

Split(s, p) == SplitAt(s, p, Find(s, p))

\* str::split on a set of characters
RECURSIVE SplitAny(_, _)
SplitAnyAt(s, cs, i) ==
    IF i = 0 THEN <<s>>
    ELSE <<SubSeq(s, 1, i - 1)>> \o SplitAny(SubSeq(s, i + 1, Len(s)), cs)

SplitAny(s, cs) == SplitAnyAt(s, cs, MinOr0({i \in 1..Len(s) : s[i] \in cs}))

\* Iterator::nth, counted from 0
Nth(seq, n) == IF n + 1 <= Len(seq) THEN Some(seq[n + 1]) ELSE None

RECURSIVE Join(_, _)
Join(pieces, sep) ==
    IF pieces = <<>> THEN <<>>
    ELSE IF Len(pieces) = 1 THEN pieces[1]
    ELSE pieces[1] \o sep \o Join(Tail(pieces), sep)

\* str::replace: every non-overlapping match of from, left to right
Replace(s, from, to) == Join(Split(s, from), to)

RECURSIVE TrimStart(_)
TrimStart(s) ==
    IF s /= <<>> /\ s[1] \in Whitespace THEN TrimStart(Tail(s)) ELSE s

\* str::trim_end_matches
RECURSIVE TrimEndMatches(_, _)
TrimEndMatches(s, cs) ==
    IF s /= <<>> /\ s[Len(s)] \in cs
    THEN TrimEndMatches(SubSeq(s, 1, Len(s) - 1), cs)
    ELSE s

\* str::trim
Trim(s) == TrimEndMatches(TrimStart(s), Whitespace)

\* str::split_whitespace: the non-empty pieces between runs of whitespace
SplitWhitespace(s) == SelectSeq(SplitAny(s, Whitespace), LAMBDA w : w /= <<>>)

\* str::lines: split at "\n", a final empty piece dropped, a trailing "\r"
\* of each line dropped
DropLastEmpty(raw) ==
    IF raw[Len(raw)] = <<>> THEN SubSeq(raw, 1, Len(raw) - 1) ELSE raw

StripCR(line) ==
    IF line /= <<>> /\ line[Len(line)] = "\r"
    THEN SubSeq(line, 1, Len(line) - 1)
    ELSE line

StripCRs(ls) == [i \in 1..Len(ls) |-> StripCR(ls[i])]

Lines(s) == StripCRs(DropLastEmpty(Split(s, Str("\n"))))

(***************************************************************************)
(* Paths.  PathBuf compares by components: repeated separators and "."     *)
(* components other than a leading one are not part of a path.             *)
(***************************************************************************)
RECURSIVE Components(_, _, _)
Components(parts, root, i) ==
    IF i > Len(parts) THEN <<>>
    ELSE IF parts[i] /= <<>> /\ (parts[i] = Str(".") => (i = 1 /\ ~root))
    THEN <<parts[i]>> \o Components(parts, root, i + 1)
    ELSE Components(parts, root, i + 1)

PathBuf(s) ==
    [root |-> StartsWith(s, Str("/")),
     components |-> Components(Split(s, Str("/")), StartsWith(s, Str("/")), 1)]

\* Path::file_name, "" for None
FileName(comps) ==
    IF comps = <<>> \/ comps[Len(comps)] = Str("..") THEN <<>>
    ELSE comps[Len(comps)]

\* the text after the last dot of a file name, when a dot other than the
\* first character exists
AfterLastDot(name, dot) ==
    IF dot <= 1 THEN <<>> ELSE SubSeq(name, dot + 1, Len(name))

ExtensionOfName(name) ==
    AfterLastDot(name, MaxOr0({i \in 1..Len(name) : name[i] = "."}))

\* Path::extension followed by to_str and unwrap_or("")
Extension(s) == ExtensionOfName(FileName(PathBuf(s).components))

(***************************************************************************)
(* src/deps.rs: the import scanners.                                       *)
(***************************************************************************)
rust_dep_path(dep) ==
    IF dep = None THEN <<>>
    ELSE <<Replace(TrimEndMatches(Trim(dep[1]), {";"}), Str("::"), Str("/"))
               \o Str(".rs")>>

extract_rust_line(line) ==
    IF StartsWith(Trim(line), Str("use "))
    THEN rust_dep_path(Nth(Split(line, Str("use ")), 1))
    ELSE <<>>

rust_lines(ls) == Flatten([i \in 1..Len(ls) |-> extract_rust_line(ls[i])])

extract_rust_dependencies(content) == rust_lines(Lines(content))

python_dep_path(dep) ==
    IF dep = None THEN <<>>
    ELSE <<Replace(dep[1], Str("."), Str("/")) \o Str(".py")>>

extract_python_line(line) ==
    IF StartsWith(Trim(line), Str("import ")) \/ StartsWith(Trim(line), Str("from "))
    THEN python_dep_path(Nth(SplitWhitespace(line), 1))
    ELSE <<>>

python_lines(ls) == Flatten([i \in 1..Len(ls) |-> extract_python_line(ls[i])])

extract_python_dependencies(content) == python_lines(Lines(content))

js_ts_dep_path(dep) ==
    IF dep = None THEN <<>>
    ELSE IF EndsWith(dep[1], Str(".js")) \/ EndsWith(dep[1], Str(".ts"))
    THEN <<dep[1]>>
    ELSE <<dep[1] \o Str(".js")>>

extract_js_ts_line(line) ==
    IF StartsWith(Trim(line), Str("import "))
    THEN js_ts_dep_path(Nth(SplitAny(line, {"\"", "'"}), 1))
    ELSE <<>>

js_ts_lines(ls) == Flatten([i \in 1..Len(ls) |-> extract_js_ts_line(ls[i])])

extract_js_ts_dependencies(content) == js_ts_lines(Lines(content))

java_dep_path(dep) ==
    IF dep = None THEN <<>>
    ELSE <<Replace(TrimEndMatches(Trim(dep[1]), {";"}), Str("."), Str("/"))
               \o Str(".java")>>

extract_java_line(line) ==
    IF StartsWith(Trim(line), Str("import "))
    THEN java_dep_path(Nth(Split(line, Str("import ")), 1))
    ELSE <<>>

java_lines(ls) == Flatten([i \in 1..Len(ls) |-> extract_java_line(ls[i])])

extract_java_dependencies(content) == java_lines(Lines(content))

\* the match with a default arm that scans instead of returning nothing
extract_by_extension_scan_all(ext, content) ==
    IF ext = Str("py") THEN extract_python_dependencies(content)
    ELSE IF ext = Str("js") \/ ext = Str("ts") THEN extract_js_ts_dependencies(content)
    ELSE IF ext = Str("java") THEN extract_java_dependencies(content)
    ELSE extract_rust_dependencies(content)

\* the match of extract_dependencies on the extension
extract_by_extension(ext, content) ==
    IF ext = Str("rs") THEN extract_rust_dependencies(content)
    ELSE IF ext = Str("py") THEN extract_python_dependencies(content)
    ELSE IF ext = Str("js") \/ ext = Str("ts") THEN extract_js_ts_dependencies(content)
    ELSE IF ext = Str("java") THEN extract_java_dependencies(content)
    ELSE <<>>

extract_dependencies(file_path, content) ==
    extract_by_extension(Extension(file_path), content)

(***************************************************************************)
(* src/deps.rs: build_dependency_graph.  A graph is the sequence of its    *)
(* node weights (node index i is position i) and the sequence of its       *)
(* edges <<source, target>> in insertion order.                            *)
(***************************************************************************)

\* node_indices.get(&path): the HashMap is filled in file order and insert
\* overwrites, so a path maps to the last file carrying it; 0 is None
node_index(fs, path) ==
    MaxOr0({i \in 1..Len(fs) : PathBuf(fs[i].rel_path) = PathBuf(path)})

\* `if let Some(&dep_index) = node_indices.get(&dep_path)`, per dependency
dep_indices(fs, dependencies) ==
    SelectSeq([k \in 1..Len(dependencies) |-> node_index(fs, dependencies[k])],
              LAMBDA d : d /= 0)

add_edges(file_index, deps) == [k \in 1..Len(deps) |-> <<file_index, deps[k]>>]

\* the body of the second loop of build_dependency_graph for one file
file_edges(fs, i) ==
    add_edges(node_index(fs, fs[i].rel_path),
              dep_indices(fs, extract_dependencies(fs[i].rel_path, fs[i].content)))

build_dependency_graph(fs) ==
    [nodes |-> [i \in 1..Len(fs) |-> fs[i].rel_path],
     edges |-> Flatten([i \in 1..Len(fs) |-> file_edges(fs, i)])]

(***************************************************************************)
(* petgraph::algo::toposort, as sort_files_by_dependency calls it.         *)
(***************************************************************************)

\* Graph::neighbors: the targets of a node's outgoing edges, the edge added
\* last first
Targets(out) == [k \in 1..Len(out) |-> out[Len(out) + 1 - k][2]]

Neighbors(g, n) == Targets(SelectSeq(g.edges, LAMBDA e : e[1] = n))

\* the first visit of nx: a self loop is a cycle, every successor not yet
\* discovered is pushed
RECURSIVE DfsDrain(_, _)
DfsDiscover(g, st, nx, succs) ==
    IF nx \in Range(succs) THEN [st EXCEPT !.cycle = TRUE]
    ELSE DfsDrain(g, [st EXCEPT
             !.discovered = st.discovered \cup {nx},
             !.stack = st.stack \o
                 SelectSeq(succs, LAMBDA s : s \notin st.discovered \cup {nx})])

\* a later visit of nx: it is popped, and finished the first time
DfsFinish(g, st, nx) ==
    DfsDrain(g, [st EXCEPT
        !.stack = SubSeq(st.stack, 1, Len(st.stack) - 1),
        !.finished = st.finished \cup {nx},
        !.finish_stack = IF nx \in st.finished
                         THEN st.finish_stack
                         ELSE Append(st.finish_stack, nx)])

DfsVisit(g, st, nx) ==
    IF nx \notin st.discovered
    THEN DfsDiscover(g, st, nx, Neighbors(g, nx))
    ELSE DfsFinish(g, st, nx)

\* the loop `while let Some(&nx) = dfs.stack.last()`
DfsDrain(g, st) ==
    IF st.cycle \/ st.stack = <<>> THEN st
    ELSE DfsVisit(g, st, st.stack[Len(st.stack)])

\* the loop `for i in g.node_identifiers().rev()`, from node i downwards
RECURSIVE DfsFrom(_, _, _)
DfsFrom(g, i, st) ==
    IF st.cycle \/ i = 0 THEN st
    ELSE IF i \in st.discovered THEN DfsFrom(g, i - 1, st)
    ELSE DfsFrom(g, i - 1, DfsDrain(g, [st EXCEPT !.stack = <<i>>]))

Predecessors(g, i) == {e[1] : e \in {d \in Range(g.edges) : d[2] = i}}

\* the second pass: in finish order, a node of the reversed graph reaches
\* no node that was not met before it
RECURSIVE OrderHasCycle(_, _, _)
OrderHasCycle(g, order, discovered) ==
    IF order = <<>> THEN FALSE
    ELSE \/ /\ Head(order) \notin discovered
            /\ Predecessors(g, Head(order)) \ (discovered \cup {Head(order)}) /= {}
         \/ OrderHasCycle(g, Tail(order), discovered \cup {Head(order)})

toposort_result(g, st) ==
    IF st.cycle \/ OrderHasCycle(g, Reverse(st.finish_stack), {})
    THEN [ok |-> FALSE, order |-> <<>>]
    ELSE [ok |-> TRUE, order |-> Reverse(st.finish_stack)]

\* toposort without its cycle check: whatever the first pass finished
toposort_unchecked(g) ==
    [ok |-> TRUE,
     order |-> Reverse(DfsFrom(g, Len(g.nodes),
        [stack |-> <<>>, discovered |-> {}, finished |-> {},
         finish_stack |-> <<>>, cycle |-> FALSE]).finish_stack)]

toposort(g) ==
    toposort_result(g, DfsFrom(g, Len(g.nodes),
        [stack |-> <<>>, discovered |-> {}, finished |-> {},
         finish_stack |-> <<>>, cycle |-> FALSE]))

(***************************************************************************)
(* src/deps.rs: sort_files_by_dependency.                                  *)
(***************************************************************************)
CycleError == "Cycle detected in dependency graph"

\* files.iter().find(|f| PathBuf::from(&f.rel_path) == *path).unwrap().clone()
find_file(fs, path) ==
    fs[Min({i \in 1..Len(fs) : PathBuf(fs[i].rel_path) = PathBuf(path)})]

\* the map over sorted_indices, or the error of map_err
sorted_files(fs, g, sorted_indices) ==
    IF ~sorted_indices.ok
    THEN [ok |-> FALSE, err |-> CycleError, files |-> <<>>]
    ELSE [ok |-> TRUE, err |-> "",
          files |-> [k \in 1..Len(sorted_indices.order) |->
                        find_file(fs, g.nodes[sorted_indices.order[k]])]]

sort_graph(fs, g) == sorted_files(fs, g, toposort(g))

sort_files_by_dependency(fs) == sort_graph(fs, build_dependency_graph(fs))

(***************************************************************************)
(* The inputs of the dependency sort: Rust files a.rs, b.rs, ... in scan   *)
(* order, whose lines are `use <name>;` for a file of the list, for a name *)
(* that no file carries, or a line that is no import.                      *)
(***************************************************************************)
Letters == Str("abcdefgh")

RustPath(i) == <<Letters[i]>> \o Str(".rs")

\* target 0: a line the scanner skips; target j: an import of the j-th name
RustLine(target) ==
    IF target = 0 THEN Str("pub use a;")
    ELSE Str("use ") \o <<Letters[target]>> \o Str(";")

\* the import lines of a list of n files: <<owner, target>> in file order
ImportLists(n) ==
    {e \in BoundedSeq((1..n) \X (0..(n + 1)), MaxImports) :
        \A k \in 1..(Len(e) - 1) : e[k][1] <= e[k + 1][1]}

RustLines(mine) == Join([k \in 1..Len(mine) |-> RustLine(mine[k][2])], Str("\n"))

RustContent(e, i) == RustLines(SelectSeq(e, LAMBDA x : x[1] = i))

RustFiles(n, e) ==
    [i \in 1..n |-> [rel_path |-> RustPath(i), content |-> RustContent(e, i)]]

NoCursor == [chunk |-> 0, idx |-> 0]

SplitIdle == chunks = <<>> /\ max_context = 1 /\ windows = <<>> /\ cursor = NoCursor

NoFile == [created |-> FALSE, samples |-> <<>>]

TrainIdle ==
    /\ split_ratio = [kind |-> "finite", num |-> 4, den |-> 5]
    /\ env = [loads |-> TRUE, bos |-> TRUE, writable |-> TRUE]
    /\ disk = NoFile

ParseIdle == source = <<>>

RunIdle == walk = <<>> /\ slots = <<>> /\ finished = <<>>

InitDeps ==
    /\ SplitIdle
    /\ TrainIdle
    /\ ParseIdle
    /\ RunIdle
    /\ pc = "start"
    /\ \E n \in 1..MaxFiles : \E e \in ImportLists(n) : files = RustFiles(n, e)
    /\ imports = <<>>
    /\ graph = [nodes |-> <<>>, edges |-> <<>>]
    /\ result = [ok |-> TRUE, err |-> "", files |-> <<>>]

\* one call of sort_files_by_dependency(files)
SortFiles ==
    /\ pc = "start"
    /\ pc' = "done"
    /\ imports' = [i \in 1..Len(files) |->
                      extract_dependencies(files[i].rel_path, files[i].content)]
    /\ graph' = build_dependency_graph(files)
    /\ result' = sort_files_by_dependency(files)
    /\ UNCHANGED <<files, splitVars, trainVars, parseVars, runVars>>

NextDeps == SortFiles

SpecDeps == InitDeps /\ [][NextDeps]_vars

(***************************************************************************)
(* The tokenizer boundary of src/chunker.rs (tiktoken's cl100k_base): a    *)
(* byte-level BPE.  A character is one byte, except the character          *)
(* RareChar, whose two bytes are two tokens of the vocabulary.  A token id *)
(* is the rank of its bytes in Vocab.                                      *)
(***************************************************************************)
RareChar == "~"
LeadByte == "C7"
ContinuationByte == "82"

Utf8Char(c) == IF c = RareChar THEN <<LeadByte, ContinuationByte>> ELSE <<c>>

\* str::as_bytes
Utf8(text) == Flatten([i \in 1..Len(text) |-> Utf8Char(text[i])])

\* String::from_utf8: <<TRUE, text>>, or <<FALSE, <<>>>> when a lead byte
\* has no continuation byte after it or a continuation byte no lead before
RECURSIVE FromUtf8(_)
FromUtf8Rest(c, rest) ==
    IF rest[1] THEN <<TRUE, <<c>> \o rest[2]>> ELSE <<FALSE, <<>>>>

FromUtf8(bytes) ==
    IF bytes = <<>> THEN <<TRUE, <<>>>>
    ELSE IF bytes[1] = ContinuationByte THEN <<FALSE, <<>>>>
    ELSE IF bytes[1] /= LeadByte THEN FromUtf8Rest(bytes[1], FromUtf8(Tail(bytes)))
    ELSE IF Len(bytes) >= 2 /\ bytes[2] = ContinuationByte
    THEN FromUtf8Rest(RareChar, FromUtf8(Tail(Tail(bytes))))
    ELSE <<FALSE, <<>>>>

\* the vocabulary in rank order: single bytes, the merges, and the single
\* bytes that are part of no merge and only occur in the files of a run
Vocab ==
    [i \in 1..Len(Str("ab use;\npxcdefgh.")) |-> <<Str("ab use;\npxcdefgh.")[i]>>]
        \o <<<<LeadByte>>, <<ContinuationByte>>>>
        \o <<Str("ab"), Str("us"), Str("use"), Str("use ")>>
        \o [i \in 1..Len(Str("n(){}mo")) |-> <<Str("n(){}mo")[i]>>]

RankOf(bytes) == MinOr0({r \in 1..Len(Vocab) : Vocab[r] = bytes})

\* byte pair merge: the adjacent pair of the lowest rank is merged, the
\* leftmost one of that rank, until no pair is a token
PairRank(parts, i) == RankOf(parts[i] \o parts[i + 1])

BestPair(parts, mergeable) ==
    MinOr0({i \in mergeable :
              \A j \in mergeable :
                  \/ PairRank(parts, i) < PairRank(parts, j)
                  \/ PairRank(parts, i) = PairRank(parts, j) /\ i <= j})

RECURSIVE BytePairMerge(_)
MergeAt(parts, i) ==
    IF i = 0 THEN parts
    ELSE BytePairMerge(SubSeq(parts, 1, i - 1) \o <<parts[i] \o parts[i + 1]>>
                           \o SubSeq(parts, i + 2, Len(parts)))

BytePairMerge(parts) ==
    MergeAt(parts,
        BestPair(parts, {i \in 1..(Len(parts) - 1) : PairRank(parts, i) /= 0}))

Ranks(parts) == [i \in 1..Len(parts) |-> RankOf(parts[i])]

Singles(bytes) == [i \in 1..Len(bytes) |-> <<bytes[i]>>]

\* CoreBPE::encode_ordinary
encode_ordinary(text) == Ranks(BytePairMerge(Singles(Utf8(text))))

\* CoreBPE::decode: the bytes of the tokens, as a string when they are one
decode(token_ids) == FromUtf8(Flatten([i \in 1..Len(token_ids) |-> Vocab[token_ids[i]]]))

\* a failed decode replaced by a marker instead of the empty string
unwrap_or_marker(res) == IF res[1] THEN res[2] ELSE <<"?">>

\* Result::unwrap_or_default
unwrap_or_default(res) == IF res[1] THEN res[2] ELSE <<>>

(***************************************************************************)
(* src/chunker.rs: tokenize_and_split.                                     *)
(***************************************************************************)
MinOf(a, b) == IF a <= b THEN a ELSE b

\* the window loop with idx = end + 1: a token is lost between two windows
RECURSIVE window_bounds_skipping(_, _, _)
window_bounds_skipping(idx, len, max) ==
    IF idx >= len THEN <<>>
    ELSE <<<<idx, MinOf(idx + max, len)>>>>
             \o window_bounds_skipping(MinOf(idx + max, len) + 1, len, max)

\* the loop `while idx < token_ids.len()`: the <<idx, end>> of every slice,
\* for max >= 1
RECURSIVE window_bounds(_, _, _)
window_bounds(idx, len, max) ==
    IF idx >= len THEN <<>>
    ELSE <<<<idx, MinOf(idx + max, len)>>>>
             \o window_bounds(MinOf(idx + max, len), len, max)

\* &token_ids[idx..end]
Slice(seq, idx, end) == SubSeq(seq, idx + 1, end)

sub_chunks(chunk, token_ids, bounds) ==
    [k \in 1..Len(bounds) |->
        [text |-> unwrap_or_default(decode(Slice(token_ids, bounds[k][1], bounds[k][2]))),
         language |-> chunk.language]]

\* the body of `for chunk in chunks`: what it pushes to results
split_chunk(chunk, token_ids, max) ==
    IF Len(token_ids) <= max THEN <<chunk>>
    ELSE sub_chunks(chunk, token_ids, window_bounds(0, Len(token_ids), max))

tokenize_and_split(cs, max) ==
    Flatten([j \in 1..Len(cs) |->
                split_chunk(cs[j], encode_ordinary(cs[j].text), max)])

\* the token range behind every pushed chunk: idx = end = -1 for a chunk
\* pushed as it came
chunk_windows(j, len, max) ==
    IF len <= max THEN <<[chunk |-> j, idx |-> -1, end |-> -1]>>
    ELSE [k \in 1..Len(window_bounds(0, len, max)) |->
             [chunk |-> j,
              idx |-> window_bounds(0, len, max)[k][1],
              end |-> window_bounds(0, len, max)[k][2]]]

pushed_windows(cs, max) ==
    Flatten([j \in 1..Len(cs) |->
                chunk_windows(j, Len(encode_ordinary(cs[j].text)), max)])

(***************************************************************************)
(* The inputs of the splitter: a text of at most MaxChars characters cut   *)
(* into at most MaxChunks chunks, tagged in turn with the languages.       *)
(***************************************************************************)
Alphabet == {"a", "b", RareChar}

Languages == <<"rust", "python", "javascript", "java">>

LanguageOf(j) == Languages[((j - 1) % Len(Languages)) + 1]

\* the cut points of k chunks in a text of n characters
Cuts(k, n) ==
    {c \in [0..k -> 0..n] :
        /\ c[0] = 0
        /\ c[k] = n
        /\ \A j \in 1..k : c[j - 1] <= c[j]}

ChunksOf(text, k, c) ==
    [j \in 1..k |-> [text |-> SubSeq(text, c[j - 1] + 1, c[j]),
                     language |-> LanguageOf(j)]]

DepsIdle ==
    /\ files = <<>>
    /\ imports = <<>>
    /\ graph = [nodes |-> <<>>, edges |-> <<>>]

InitSplit ==
    /\ DepsIdle
    /\ TrainIdle
    /\ ParseIdle
    /\ RunIdle
    /\ pc = "start"
    /\ \E text \in BoundedSeq(Alphabet, MaxChars) :
         \E k \in 1..MaxChunks : \E c \in Cuts(k, Len(text)) :
            chunks = ChunksOf(text, k, c)
    /\ max_context \in 1..MaxContext
    /\ windows = <<>>
    /\ cursor = NoCursor
    /\ result = <<>>

\* one call of tokenize_and_split(chunks, max_context)
TokenizeAndSplit ==
    /\ pc = "start"
    /\ pc' = "split"
    /\ result' = tokenize_and_split(chunks, max_context)
    /\ windows' = pushed_windows(chunks, max_context)
    /\ UNCHANGED <<chunks, max_context, cursor, depsVars, trainVars, parseVars, runVars>>

NextSplit == TokenizeAndSplit

SpecSplit == InitSplit /\ [][NextSplit]_vars

(***************************************************************************)
(* f64 arithmetic, for `(total as f64 * split_ratio).ceil() as usize` of   *)
(* src/training.rs.  A positive f64 is [bits, exp]: bits are the           *)
(* SignificandBits bits of its significand, the first one 1, and its value *)
(* is the binary integer bits times 2^exp.  Every operation rounds to the  *)
(* nearest value, a tie to the even one.                                   *)
(***************************************************************************)
SignificandBits == 53

\* the significand in limbs small enough to multiply in an integer
LimbBits == 14
LimbCount == 4

\* the binary integer bits plus one, <<carry out, bits>>: the last 0 becomes
\* 1 and the 1s after it become 0
IncrementAt(bits, zero) ==
    <<IF zero = 0 THEN 1 ELSE 0,
      [i \in 1..Len(bits) |-> IF i < zero THEN bits[i] ELSE IF i = zero THEN 1 ELSE 0]>>

Increment(bits) == IncrementAt(bits, MaxOr0({i \in 1..Len(bits) : bits[i] = 0}))

\* kept bits rounded up: a carry out of the first bit gives 1 0 ... 0 one
\* binary place higher
RoundedUp(inc, exp) ==
    IF inc[1] = 1
    THEN [bits |-> <<1>> \o SubSeq(inc[2], 1, Len(inc[2]) - 1), exp |-> exp + 1]
    ELSE [bits |-> inc[2], exp |-> exp]

\* round to nearest, ties to even: kept are the significand bits, up says
\* the dropped part is above one half, tie that it is one half
RoundNearestEven(kept, exp, up, tie) ==
    IF up \/ (tie /\ kept[Len(kept)] = 1)
    THEN RoundedUp(Increment(kept), exp)
    ELSE [bits |-> kept, exp |-> exp]

\* the binary expansion of rem / den, 0 < rem < den: first the count of zeros
\* before the first 1, then the significand bits from that 1 on, then the
\* remainder left
RECURSIVE LeadingZeros(_, _)
LeadingZeros(rem, den) ==
    IF 2 * rem >= den THEN 0 ELSE 1 + LeadingZeros(2 * rem, den)

RECURSIVE ShiftLeft(_, _, _)
ShiftLeft(rem, den, k) == IF k = 0 THEN rem ELSE ShiftLeft(2 * rem, den, k - 1)

\* 2^k modulo den, by repeated squaring
RECURSIVE Pow2Mod(_, _)
Square(x, den) == (x * x) % den

Pow2Mod(k, den) ==
    IF k = 0 THEN 1 % den
    ELSE IF k % 2 = 0 THEN Square(Pow2Mod(k \div 2, den), den)
    ELSE (2 * Pow2Mod(k - 1, den)) % den

\* the remainder of the long division rem / den after k binary places
DivisionRemainder(rem, den, k) == (rem * Pow2Mod(k, den)) % den

\* its first k binary places
DivisionBits(rem, den, k) ==
    [i \in 1..k |-> IF 2 * DivisionRemainder(rem, den, i - 1) >= den THEN 1 ELSE 0]

\* the f64 nearest to num / den, 0 < num < den: what parsing the decimal gives
F64Normalized(start, den, zeros) ==
    RoundNearestEven(DivisionBits(start, den, SignificandBits),
                     0 - (zeros + SignificandBits),
                     2 * DivisionRemainder(start, den, SignificandBits) > den,
                     2 * DivisionRemainder(start, den, SignificandBits) = den)

F64Shifted(num, den, zeros) == F64Normalized(ShiftLeft(num, den, zeros), den, zeros)

F64OfRatio(num, den) == F64Shifted(num, den, LeadingZeros(num, den))

\* binary bits <-> integer, for runs of bits short enough for an integer
RECURSIVE BitsValue(_)
BitsValue(bits) ==
    IF bits = <<>> THEN 0 ELSE 2 * BitsValue(SubSeq(bits, 1, Len(bits) - 1)) + bits[Len(bits)]

RECURSIVE Pow2(_)
Pow2(k) == IF k = 0 THEN 1 ELSE 2 * Pow2(k - 1)

ValueBits(value, width) == [i \in 1..width |-> (value \div Pow2(width - i)) % 2]

\* the significand as LimbCount limbs of LimbBits bits, zeros added in front
PadFront(bits, width) == [i \in 1..(width - Len(bits)) |-> 0] \o bits

LimbsOf(padded) ==
    [k \in 1..LimbCount |-> BitsValue(SubSeq(padded, (k - 1) * LimbBits + 1, k * LimbBits))]

\* the limbs times the small integer n, exactly: limb by limb from the last,
\* the carry out of the first limb in front
RECURSIVE TimesFrom(_, _, _, _)
TimesFrom(limbs, n, i, carry) ==
    IF carry >= 0 /\ i = 0 THEN <<carry>>
    ELSE TimesFrom(limbs, n, i - 1, (limbs[i] * n + carry) \div Pow2(LimbBits))
             \o <<(limbs[i] * n + carry) % Pow2(LimbBits)>>

LimbsBits(limbs) == Flatten([k \in 1..Len(limbs) |-> ValueBits(limbs[k], LimbBits)])

StripZeros(bits) == SubSeq(bits, MinOr0({i \in 1..Len(bits) : bits[i] = 1}), Len(bits))

\* the binary integer bits times the small integer n, exactly
Times(bits, n) ==
    StripZeros(LimbsBits(TimesFrom(LimbsOf(PadFront(bits, LimbCount * LimbBits)),
                                   n, LimbCount, 0)))

AllZero(bits) == \A i \in 1..Len(bits) : bits[i] = 0

\* an exact product of more than SignificandBits bits, rounded
RoundProduct(product, exp, extra) ==
    IF extra = 0 THEN [bits |-> product, exp |-> exp]
    ELSE RoundNearestEven(SubSeq(product, 1, SignificandBits), exp + extra,
             /\ product[SignificandBits + 1] = 1
             /\ ~AllZero(SubSeq(product, SignificandBits + 2, Len(product))),
             /\ product[SignificandBits + 1] = 1
             /\ AllZero(SubSeq(product, SignificandBits + 2, Len(product))))

RoundedProduct(product, exp) == RoundProduct(product, exp, Len(product) - SignificandBits)

\* total as f64 * x, for an integer total >= 1 that an f64 holds exactly
MulF64(total, x) == RoundedProduct(Times(x.bits, total), x.exp)

\* f64::ceil followed by `as usize`, for a positive value below 2^31 whose
\* exponent is negative: whole bits before the binary point, frac bits after
CeilParts(bits, whole) ==
    IF whole <= 0 THEN 1
    ELSE BitsValue(SubSeq(bits, 1, whole))
            + (IF \E i \in (whole + 1)..Len(bits) : bits[i] = 1 THEN 1 ELSE 0)

CeilF64(x) == CeilParts(x.bits, Len(x.bits) + x.exp)

(***************************************************************************)
(* Properties of the splitter.                                             *)
(***************************************************************************)
TokenCount(j) == Len(encode_ordinary(chunks[j].text))

\* the places in result of the chunks pushed for input chunk j
PlacesOf(j) == {p \in 1..Len(windows) : windows[p].chunk = j}

RECURSIVE SumOver(_, _)
SumOver(f, S) ==
    IF S = {} THEN 0 ELSE f[Min(S)] + SumOver(f, S \ {Min(S)})

WindowLengths == [p \in 1..Len(windows) |-> windows[p].end - windows[p].idx]

\* input chunk j of n tokens, pushed at the places P that start at first
SplitAsClaimed(j, n, P, first) ==
    IF n <= max_context
    THEN /\ Cardinality(P) = 1
         /\ windows[first].idx = -1
         /\ result[first] = chunks[j]
    ELSE /\ Cardinality(P) = (n + max_context - 1) \div max_context
         /\ P = first..(first + Cardinality(P) - 1)
         /\ \A p \in P :
               /\ windows[p].idx = (p - first) * max_context
               /\ windows[p].end = MinOf((p - first + 1) * max_context, n)
               /\ WindowLengths[p] >= 1 /\ WindowLengths[p] <= max_context
               /\ (p /= first + Cardinality(P) - 1 => WindowLengths[p] = max_context)
               /\ (p /= first => windows[p].idx = windows[p - 1].end)
               /\ result[p].language = chunks[j].language
         /\ SumOver(WindowLengths, P) = n

\* C7: with max_context >= 1 a chunk of n <= max_context tokens is pushed
\* unchanged; a longer one becomes ceil(n / max_context) chunks, window k
\* over tokens [k*max_context, min((k+1)*max_context, n)), consecutive, each
\* of at most max_context tokens and all but the last of exactly that many,
\* the lengths summing to n, with the chunk's language; the chunks pushed
\* for different inputs keep the input order; 6000 tokens under 2048 give 3.
C7_WindowPartition ==
    /\ Len(window_bounds(0, 6000, 2048)) = 3
    /\ pc = "split" =>
          /\ Len(result) = Len(windows)
          /\ \A p \in 1..(Len(windows) - 1) : windows[p].chunk <= windows[p + 1].chunk
          /\ \A j \in 1..Len(chunks) :
                /\ PlacesOf(j) /= {}
                /\ SplitAsClaimed(j, TokenCount(j), PlacesOf(j), Min(PlacesOf(j)))

\* a chunk that fits follows a chunk cut into windows, the last one shorter
C7_Witness ==
    /\ pc = "split"
    /\ Len(chunks) = 2
    /\ TokenCount(1) > max_context
    /\ TokenCount(1) % max_context /= 0
    /\ TokenCount(2) <= max_context
    /\ TokenCount(2) >= 1
    /\ Len(result) = Cardinality(PlacesOf(1)) + 1

TextsAt(P) == Flatten([p \in 1..Len(result) |-> IF p \in P THEN result[p].text ELSE <<>>])

\* C8: for a chunk of more than max_context tokens the texts of its
\* sub-chunks, concatenated in order, are the decoding of all its tokens.
C8_WindowsDecodeToWhole ==
    pc = "split" =>
        \A j \in 1..Len(chunks) :
            TokenCount(j) > max_context =>
                /\ decode(encode_ordinary(chunks[j].text))[1]
                /\ TextsAt(PlacesOf(j)) = decode(encode_ordinary(chunks[j].text))[2]

(***************************************************************************)
(* Properties of the dependency sort.                                      *)
(***************************************************************************)
Nodes(g) == 1..Len(g.nodes)

Successors(g, n) == {e[2] : e \in {d \in Range(g.edges) : d[1] = n}}

\* the nodes a path of at least one edge leads to from the set S
RECURSIVE ReachIn(_, _, _)
ReachIn(g, S, k) ==
    IF k = 0 THEN {}
    ELSE UNION {Successors(g, n) : n \in S}
            \cup ReachIn(g, UNION {Successors(g, n) : n \in S}, k - 1)

HasCycle(g) == \E n \in Nodes(g) : n \in ReachIn(g, {n}, Len(g.nodes))

WithoutSelfLoops(g) ==
    [nodes |-> g.nodes, edges |-> SelectSeq(g.edges, LAMBDA e : e[1] /= e[2])]

PathsOf(fs) == [k \in 1..Len(fs) |-> fs[k].rel_path]

\* the place of a path in the sorted list
PositionOf(sorted, path) == MinOr0({k \in 1..Len(sorted) : sorted[k].rel_path = path})

\* C1: a dependency comes before the file that references it: for every
\* edge file -> candidate of the built graph, candidate precedes file in the
\* list sort_files_by_dependency returns.
C1_DependencyBeforeFile ==
    (pc = "done" /\ result.ok) =>
        \A e \in Range(graph.edges) :
            PositionOf(result.files, graph.nodes[e[2]])
                < PositionOf(result.files, graph.nodes[e[1]])

\* C2: when the built graph has a directed cycle, the sort returns the cycle
\* error and no list at all.
C2_CycleIsAnError ==
    (pc = "done" /\ HasCycle(graph)) =>
        /\ ~result.ok
        /\ result.err = CycleError
        /\ result.files = <<>>

\* a cycle through at least two files has been sorted
C2_Witness ==
    /\ pc = "done"
    /\ HasCycle(WithoutSelfLoops(graph))
    /\ Len(files) >= 2
    /\ ~result.ok

\* the order that emits, among the nodes whose predecessors are all emitted,
\* the one earliest in the input; before(n) is the set that must precede n
RECURSIVE InputOrderTopo(_, _, _)
EmitEarliest(g, before, emitted, ready) ==
    IF ready = {} THEN emitted
    ELSE InputOrderTopo(g, before, Append(emitted, Min(ready)))

InputOrderTopo(g, before, emitted) ==
    EmitEarliest(g, before, emitted,
        {n \in Nodes(g) \ Range(emitted) : before[n] \subseteq Range(emitted)})

ReferrersFirst(g) == [n \in Nodes(g) |-> Predecessors(g, n) \ {n}]
DependenciesFirst(g) == [n \in Nodes(g) |-> Successors(g, n) \ {n}]

NodePaths(g, order) == [k \in 1..Len(order) |-> g.nodes[order[k]]]

\* C3: on an acyclic graph the output is the topological order that breaks
\* ties by input position, whatever the order of a file's import lines;
\* stated for either reading of "ordering predecessor" (the files that
\* reference a file, or the files it references).
C3_TiesByInputOrder ==
    (pc = "done" /\ result.ok) =>
        \/ PathsOf(result.files)
              = NodePaths(graph, InputOrderTopo(graph, ReferrersFirst(graph), <<>>))
        \/ PathsOf(result.files)
              = NodePaths(graph, InputOrderTopo(graph, DependenciesFirst(graph), <<>>))

\* C4: the finished graph holds no edge from a file to itself, and a
\* self-reference alone never makes the sort fail.
C4_NoSelfEdge ==
    pc = "done" =>
        /\ \A e \in Range(graph.edges) : e[1] /= e[2]
        /\ (~HasCycle(WithoutSelfLoops(graph)) => result.ok)

(***************************************************************************)
(* The inputs of the graph builder over several languages: files a.<ext>,  *)
(* b.<ext>, ... (all at the root, or all under m/), one of which holds one *)
(* import line that names a file of the list or a name no file carries.    *)
(***************************************************************************)
Extensions == {Str("rs"), Str("py"), Str("js"), Str("ts"), Str("java"), Str("go")}

SupportedExtensions == {Str("rs"), Str("py"), Str("js"), Str("ts"), Str("java")}

Dirs == {<<>>, Str("m/")}

LangPath(dir, i, ext) == dir \o <<Letters[i]>> \o Str(".") \o ext

\* the import lines of the model, for the name t
ImportLines(t) ==
    {Str("use ") \o t \o Str(";"),
     Str("use m::") \o t \o Str(";"),
     Str("import ") \o t,
     Str("import m.") \o t \o Str(";"),
     Str("from m.") \o t \o Str(" import x"),
     Str("import x from \"") \o t \o Str("\""),
     Str("import x from 'm/") \o t \o Str(".ts'"),
     Str("  import \"") \o t \o Str(".js\";")}

LangFiles(dir, exts, importer, line) ==
    [i \in 1..Len(exts) |->
        [rel_path |-> LangPath(dir, i, exts[i]),
         content |-> IF i = importer THEN line ELSE <<>>]]

InitLang ==
    /\ SplitIdle
    /\ TrainIdle
    /\ ParseIdle
    /\ RunIdle
    /\ pc = "start"
    /\ \E n \in 1..MaxLangFiles :
         \E dir \in Dirs, exts \in [1..n -> Extensions], importer \in 1..n :
           \E t \in 1..(n + 1) :
             \E line \in ImportLines(<<Letters[t]>>) :
                files = LangFiles(dir, exts, importer, line)
    /\ imports = <<>>
    /\ graph = [nodes |-> <<>>, edges |-> <<>>]
    /\ result = [ok |-> TRUE, err |-> "", files |-> <<>>]

\* one call of build_dependency_graph(files)
BuildGraph ==
    /\ pc = "start"
    /\ pc' = "built"
    /\ imports' = [i \in 1..Len(files) |->
                      extract_dependencies(files[i].rel_path, files[i].content)]
    /\ graph' = build_dependency_graph(files)
    /\ UNCHANGED <<files, result, splitVars, trainVars, parseVars, runVars>>

NextLang == BuildGraph

SpecLang == InitLang /\ [][NextLang]_vars

EdgesFrom(g, i) == SelectSeq(g.edges, LAMBDA e : e[1] = i)

\* the references of file i that are the path of a file of the list
Resolved(fs, deps) ==
    SelectSeq(deps, LAMBDA d : \E j \in 1..Len(fs) : PathBuf(d) = PathBuf(fs[j].rel_path))

\* C5: the node set of the built graph is the input file set, one node per
\* FileEntry; an edge file -> candidate exists only when the candidate is the
\* path of a file of the set, one edge per such reference; an unresolved
\* reference and a file of an unsupported extension add nothing.
C5_GraphOverFileSet ==
    pc = "built" =>
        /\ graph.nodes = PathsOf(files)
        /\ \A e \in Range(graph.edges) :
              /\ e[1] \in 1..Len(files) /\ e[2] \in 1..Len(files)
              /\ \E d \in Range(imports[e[1]]) :
                    PathBuf(d) = PathBuf(files[e[2]].rel_path)
        /\ \A i \in 1..Len(files) :
              /\ Len(EdgesFrom(graph, i)) = Len(Resolved(files, imports[i]))
              /\ Extension(files[i].rel_path) \notin SupportedExtensions
                    => EdgesFrom(graph, i) = <<>>

\* a file of an unsupported extension holds a line that is an import of
\* another file of the list in Rust, and the graph has been built
C5_Witness ==
    /\ pc = "built"
    /\ \E i, j \in 1..Len(files) :
          /\ i /= j
          /\ Extension(files[i].rel_path) \notin SupportedExtensions
          /\ files[j].rel_path \in Range(extract_rust_dependencies(files[i].content))
    /\ graph.edges = <<>>

\* C6: every candidate extracted from a file of a supported language ends
\* with that language's own extension, given once: a/b.rs for the Rust
\* `use a::b;`, a/b.py for the Python `import a.b`, a/b.java for the Java
\* `import a.b;`, a .js candidate in a .js file and a .ts candidate in a .ts
\* file.
C6_OwnExtension ==
    /\ extract_dependencies(Str("x.rs"), Str("use a::b;")) = <<Str("a/b.rs")>>
    /\ extract_dependencies(Str("x.py"), Str("import a.b")) = <<Str("a/b.py")>>
    /\ extract_dependencies(Str("x.java"), Str("import a.b;")) = <<Str("a/b.java")>>
    /\ pc = "built" =>
          \A i \in 1..Len(files) : \A d \in Range(imports[i]) :
              /\ EndsWith(d, Str(".") \o Extension(files[i].rel_path))
              /\ ~EndsWith(d, Str(".") \o Extension(files[i].rel_path)
                                 \o Str(".") \o Extension(files[i].rel_path))

(***************************************************************************)
(* src/training.rs: produce_training_json.  The value it returns is kept   *)
(* with the steps it took, in order, and the samples it handed to the      *)
(* writer.                                                                 *)
(***************************************************************************)
TokenizerName == "deepseek-ai/DeepSeek-R1-Distill-Llama-70B"

RatioError == "Split ratio must be between 0 and 1"
TokenizerError == "Tokenizer::from_pretrained"
CreateError == "File::create"
SlicePanic == "range end index out of range"

\* the id of the special token the tokenizer's post-processor puts first
BosId == Len(Vocab) + 1

\* Tokenizer::encode(content, add_special_tokens = true).get_ids()
encode(content, bos) ==
    (IF bos THEN <<BosId>> ELSE <<>>) \o encode_ordinary(content)

\* Tokenizer::decode(ids, skip_special_tokens = true)
decode_skipping(ids) == decode(SelectSeq(ids, LAMBDA t : t /= BosId))

\* split_ratio <= 0.0 || split_ratio >= 1.0: both comparisons are false of NaN
ratio_rejected(r) ==
    \/ r.kind = "neg_inf"
    \/ r.kind = "pos_inf"
    \/ r.kind = "finite" /\ (r.num <= 0 \/ r.num >= r.den)

\* (total as f64 * split_ratio).ceil() as usize, for a ratio that passed the
\* check: the cast of NaN gives 0
prompt_end(total, r) ==
    IF r.kind = "nan" THEN 0
    ELSE CeilF64(MulF64(total, F64OfRatio(r.num, r.den)))

\* the TrainingSample of one file: &tokens[..end] and &tokens[end..]
sample(tokens, end) ==
    [prompt |-> unwrap_or_default(decode_skipping(SubSeq(tokens, 1, end))),
     completion |-> unwrap_or_default(decode_skipping(SubSeq(tokens, end + 1, Len(tokens)))),
     prompt_tokens |-> end,
     completion_tokens |-> Len(tokens) - end,
     tokenizer |-> TokenizerName]

\* the body of `for file in &sorted_files`: what it pushes to samples
file_samples(tokens, r) ==
    IF Len(tokens) < 2 THEN <<>> ELSE <<sample(tokens, prompt_end(Len(tokens), r))>>

\* the loop left with `break` at the first file of fewer than two tokens
samples_until(sorted, r, bos, short) ==
    Flatten([i \in 1..(IF short = 0 THEN Len(sorted) ELSE short - 1) |->
                file_samples(encode(sorted[i].content, bos), r)])

samples_of_stopping(sorted, r, bos) ==
    samples_until(sorted, r, bos,
        MinOr0({i \in 1..Len(sorted) : Len(encode(sorted[i].content, bos)) < 2}))

samples_of(sorted, r, bos) ==
    Flatten([i \in 1..Len(sorted) |-> file_samples(encode(sorted[i].content, bos), r)])

\* &tokens[..prompt_end] with prompt_end > tokens.len() panics
slice_panics(sorted, r, bos) ==
    \E i \in 1..Len(sorted) :
        /\ Len(encode(sorted[i].content, bos)) >= 2
        /\ prompt_end(Len(encode(sorted[i].content, bos)), r)
              > Len(encode(sorted[i].content, bos))

Step(op) == [op |-> op, file |-> <<>>, total |-> 0]

encode_steps(sorted, bos) ==
    [i \in 1..Len(sorted) |->
        [op |-> "encode", file |-> sorted[i].rel_path,
         total |-> Len(encode(sorted[i].content, bos))]]

Failed(err, steps) ==
    [ok |-> FALSE, err |-> err, steps |-> steps, samples |-> <<>>, written |-> FALSE]

\* File::create(out_path)? and serde_json::to_writer_pretty
write_samples(samples, steps, writable) ==
    IF ~writable THEN Failed(CreateError, steps \o <<Step("create")>>)
    ELSE [ok |-> TRUE, err |-> "", steps |-> steps \o <<Step("create")>>,
          samples |-> samples, written |-> TRUE]

encode_files(sorted, r, e, steps) ==
    IF slice_panics(sorted, r, e.bos)
    THEN Failed(SlicePanic, steps \o encode_steps(sorted, e.bos))
    ELSE write_samples(samples_of(sorted, r, e.bos),
                       steps \o encode_steps(sorted, e.bos), e.writable)

\* let bpe = cl100k_base()?
with_tokenizer(sorted, r, e) ==
    IF ~e.loads THEN Failed(TokenizerError, <<Step("sort"), Step("load")>>)
    ELSE encode_files(sorted, r, e, <<Step("sort"), Step("load")>>)

\* let sorted_files = sort_files_by_dependency(files)?
after_sort(sorted, r, e) ==
    IF ~sorted.ok THEN Failed(sorted.err, <<Step("sort")>>)
    ELSE with_tokenizer(sorted.files, r, e)

\* the ratio validated after the dependency sort instead of first
produce_training_json_sorting_first(fs, r, e) ==
    IF ratio_rejected(r) THEN Failed(RatioError, <<Step("sort")>>)
    ELSE after_sort(sort_files_by_dependency(fs), r, e)

produce_training_json(fs, r, e) ==
    IF ratio_rejected(r) THEN Failed(RatioError, <<>>)
    ELSE after_sort(sort_files_by_dependency(fs), r, e)

(***************************************************************************)
(* The inputs of produce_training_json: at most MaxTrainFiles Rust files,  *)
(* each an import of the first file, two characters of two bytes, or a run *)
(* of one-token characters; a split ratio; the tokenizer and the disk.     *)
(***************************************************************************)
TokenCounts == {0, 1, 2, 10, 25}

Repeat(c, n) == [i \in 1..n |-> c]

Contents == {Repeat("x", n) : n \in TokenCounts} \cup {RustLine(1), <<RareChar, RareChar>>}

Finite(num, den) == [kind |-> "finite", num |-> num, den |-> den]

Ratios ==
    {Finite(4, 5), Finite(1, 2), Finite(7, 25), Finite(1, 10), Finite(9, 10),
     Finite(0, 1), Finite(1, 1), Finite(0 - 1, 2), Finite(3, 2),
     [kind |-> "nan", num |-> 0, den |-> 1],
     [kind |-> "pos_inf", num |-> 1, den |-> 0],
     [kind |-> "neg_inf", num |-> 0 - 1, den |-> 0]}

Environments ==
    {[loads |-> TRUE, bos |-> TRUE, writable |-> TRUE],
     [loads |-> TRUE, bos |-> FALSE, writable |-> TRUE],
     [loads |-> TRUE, bos |-> TRUE, writable |-> FALSE],
     [loads |-> FALSE, bos |-> TRUE, writable |-> TRUE]}

TrainFiles(contents) ==
    [i \in DOMAIN contents |-> [rel_path |-> RustPath(i), content |-> contents[i]]]

InitTrain ==
    /\ SplitIdle
    /\ ParseIdle
    /\ RunIdle
    /\ pc = "start"
    /\ \E n \in 1..MaxTrainFiles : \E contents \in [1..n -> Contents] :
         files = TrainFiles(contents)
    /\ imports = <<>>
    /\ graph = [nodes |-> <<>>, edges |-> <<>>]
    /\ split_ratio \in Ratios
    /\ env \in Environments
    /\ disk = NoFile
    /\ result = Failed("", <<>>)

\* the destination created, empty, as soon as the ratio has been accepted
disk_after_creating_early(res, old) ==
    IF res.written THEN [created |-> TRUE, samples |-> res.samples]
    ELSE IF res.err /= RatioError THEN [created |-> TRUE, samples |-> <<>>]
    ELSE old

\* File::create(out_path) and to_writer_pretty(writer, &samples) as the last
\* step: the file at out_path after the call, old being the one before it
disk_after(res, old) ==
    IF res.written THEN [created |-> TRUE, samples |-> res.samples] ELSE old

\* one call of produce_training_json(files, out_path, split_ratio), on a list
\* given or on the list collect_files_parallel returned
Train ==
    /\ pc \in {"start", "collected"}
    /\ pc' = "trained"
    /\ result' = produce_training_json(files, split_ratio, env)
    /\ disk' = disk_after(produce_training_json(files, split_ratio, env), disk)
    /\ UNCHANGED <<depsVars, splitVars, split_ratio, env, parseVars, runVars>>

NextTrain == Train

SpecTrain == InitTrain /\ [][NextTrain]_vars

(***************************************************************************)
(* Properties of produce_training_json.                                    *)
(***************************************************************************)
\* a ratio strictly between 0 and 1, and one at or beyond an end
InsideUnitInterval(r) == r.kind = "finite" /\ 0 < r.num /\ r.num < r.den

OutsideUnitInterval(r) ==
    \/ r.kind \in {"pos_inf", "neg_inf"}
    \/ r.kind = "finite" /\ (r.num <= 0 \/ r.num >= r.den)

\* the least integer at or above total * num / den
CeilOfProduct(total, num, den) == (total * num + den - 1) \div den

\* the files the run encoded that have at least two tokens, in its order
Encoded == SelectSeq(result.steps, LAMBDA st : st.op = "encode" /\ st.total >= 2)

TokensOf(path) ==
    encode(files[CHOOSE i \in 1..Len(files) : files[i].rel_path = path].content, env.bos)

SampleSplitsAt(s, tokens, r) ==
    /\ s.prompt_tokens = CeilOfProduct(Len(tokens), r.num, r.den)
    /\ s.completion_tokens = Len(tokens) - s.prompt_tokens
    /\ s.prompt = unwrap_or_default(decode_skipping(SubSeq(tokens, 1, s.prompt_tokens)))
    /\ s.completion = unwrap_or_default(decode_skipping(
                          SubSeq(tokens, s.prompt_tokens + 1, Len(tokens))))
    /\ s.prompt_tokens + s.completion_tokens = Len(tokens)
    /\ 1 <= s.prompt_tokens
    /\ s.prompt_tokens <= Len(tokens)
    /\ (Len(tokens) = 10 /\ r = Finite(4, 5))
          => (s.prompt_tokens = 8 /\ s.completion_tokens = 2)

\* C9: every sample of a file of total >= 2 tokens, for a ratio r strictly
\* between 0 and 1, has prompt_tokens = ceil(total * r) and
\* completion_tokens = total - prompt_tokens, its prompt is the decoding of
\* the first prompt_tokens tokens and its completion the decoding of the
\* rest, 1 <= prompt_tokens <= total, and 10 tokens with r = 0.8 give 8 and 2
C9_SplitAtCeiling ==
    (pc = "trained" /\ InsideUnitInterval(split_ratio) /\ result.written) =>
        /\ Len(result.samples) = Len(Encoded)
        /\ \A k \in 1..Len(result.samples) :
              SampleSplitsAt(result.samples[k], TokensOf(Encoded[k].file), split_ratio)

\* C10: a split ratio r <= 0 or r >= 1 is rejected with the ratio error
\* before the dependency sort, the tokenizer load, any encoding and the
\* creation of the file; a ratio strictly between 0 and 1 passes the check
C10_RatioCheckedFirst ==
    pc = "trained" =>
        /\ OutsideUnitInterval(split_ratio) =>
              /\ ~result.ok
              /\ result.err = RatioError
              /\ result.steps = <<>>
              /\ disk = NoFile
        /\ InsideUnitInterval(split_ratio) =>
              /\ result.err /= RatioError
              /\ result.steps /= <<>>
              /\ result.steps[1].op = "sort"

\* a ratio of 1 with a file that imports itself and a tokenizer that does
\* not load: the ratio error is the one returned
C10_Witness ==
    /\ pc = "trained"
    /\ split_ratio = Finite(1, 1)
    /\ files[1].content = RustLine(1)
    /\ ~env.loads
    /\ result.err = RatioError

\* the dependency-sorted file list, and its files of at least two tokens
SortedInput == sort_files_by_dependency(files).files

Sampled == SelectSeq(SortedInput, LAMBDA f : Len(encode(f.content, env.bos)) >= 2)

SampleOfFile(s, f) ==
    /\ s.prompt_tokens + s.completion_tokens = Len(encode(f.content, env.bos))
    /\ RareChar \notin Range(f.content) => s.prompt \o s.completion = f.content

\* C11: the samples written are, one for one and in the same order, the
\* files of the dependency-sorted list that have at least two tokens; a file
\* of 0 or 1 tokens has no sample and does not stop the files after it.
C11_SamplesFollowSortedFiles ==
    (pc = "trained" /\ result.written) =>
        /\ disk.samples = result.samples
        /\ Len(result.samples) = Len(Sampled)
        /\ \A k \in 1..Len(result.samples) : SampleOfFile(result.samples[k], Sampled[k])

\* two files are sampled in the sorted order, which is not the input order:
\* the first sample is the one of the second input file
C11_Witness ==
    /\ pc = "trained"
    /\ result.written
    /\ Len(files) = 2
    /\ SortedInput = <<files[2], files[1]>>
    /\ Len(result.samples) = 2
    /\ result.samples[1].prompt \o result.samples[1].completion = files[2].content
    /\ files[1].content /= files[2].content

(***************************************************************************)
(* src/parse: parse_file_to_chunks.  The tree-sitter parser is given with  *)
(* the call: whether its grammar loads and the tree it returns for the     *)
(* content (ok = FALSE when parse returns None).  A node is its kind, its  *)
(* byte range and its children; the contents are ASCII, a byte a           *)
(* character.                                                              *)
(***************************************************************************)
Chunk(text, language) == [text |-> text, language |-> language]

Returned(cs) == [panicked |-> FALSE, chunks |-> cs]

\* .expect("Error loading ... grammar") on an Err
Panicked == [panicked |-> TRUE, chunks |-> <<>>]

\* src/parse/fallback.rs: a line whose left-trimmed text starts with a keyword
is_trigger(line) ==
    \/ StartsWith(TrimStart(line), Str("function"))
    \/ StartsWith(TrimStart(line), Str("class"))
    \/ StartsWith(TrimStart(line), Str("def "))

\* the buffer closed at every trigger line, empty or not
closes_buffer_always(line, current_acc) == is_trigger(line)

\* the trigger test and `if !current_acc.is_empty()`
closes_buffer(line, current_acc) == is_trigger(line) /\ current_acc /= <<>>

\* the final chunk
fallback_final(results, current_acc, lang) ==
    IF current_acc /= <<>> THEN Append(results, Chunk(current_acc, lang)) ELSE results

\* `for line in lines`, from line i on
RECURSIVE fallback_loop(_, _, _, _, _)
fallback_loop(lines, lang, i, results, current_acc) ==
    IF i > Len(lines) THEN fallback_final(results, current_acc, lang)
    ELSE IF closes_buffer(lines[i], current_acc)
    THEN fallback_loop(lines, lang, i + 1,
                       Append(results, Chunk(current_acc, lang)),
                       lines[i] \o <<"\n">>)
    ELSE fallback_loop(lines, lang, i + 1, results, current_acc \o lines[i] \o <<"\n">>)

parse_fallback_line_based(content, lang) ==
    fallback_loop(Lines(content), lang, 1, <<>>, <<>>)

\* source[start..end]
extract_snippet(src, node) == SubSeq(src, node.start_byte + 1, node.end_byte)

\* the nodes of interesting kind among the root's children and their children
interesting_descendants(children, kinds) ==
    Flatten([k \in 1..Len(children) |->
        (IF children[k].kind \in kinds THEN <<children[k]>> ELSE <<>>)
            \o SelectSeq(children[k].children, LAMBDA n : n.kind \in kinds)])

\* `for child in root.children(&mut cursor)` with the test of child.kind()
interesting_children(children, kinds) == SelectSeq(children, LAMBDA n : n.kind \in kinds)

snippets(content, nodes, lang) ==
    [k \in 1..Len(nodes) |-> Chunk(extract_snippet(content, nodes[k]), lang)]

\* `if results.is_empty()`: the entire file
whole_if_empty(results, content, lang) ==
    IF results = <<>> THEN <<Chunk(content, lang)>> ELSE results

\* the body the six adapters share
parse_tree(content, parser, kinds, lang) ==
    IF ~parser.grammar THEN Panicked
    ELSE IF ~parser.tree.ok THEN Returned(<<Chunk(content, lang)>>)
    ELSE Returned(whole_if_empty(
             snippets(content, interesting_children(parser.tree.children, kinds), lang),
             content, lang))

PythonKinds == {"function_definition", "class_definition"}
RustKinds == {"function_item", "struct_item", "enum_item", "impl_item", "trait_item"}
JavaScriptKinds == {"function_declaration", "class_declaration"}
TypeScriptKinds == {"function_declaration", "class_declaration", "interface_declaration"}
JavaKinds == {"class_declaration", "interface_declaration", "enum_declaration"}
CppKinds ==
    {"function_definition", "class_specifier", "struct_specifier", "namespace_definition"}

parse_python_tree(content, parser) == parse_tree(content, parser, PythonKinds, Str("python"))
parse_rust_tree(content, parser) == parse_tree(content, parser, RustKinds, Str("rust"))
parse_javascript_tree(content, parser) ==
    parse_tree(content, parser, JavaScriptKinds, Str("javascript"))
parse_typescript_tree(content, parser) ==
    parse_tree(content, parser, TypeScriptKinds, Str("typescript"))
parse_java_tree(content, parser) == parse_tree(content, parser, JavaKinds, Str("java"))
parse_cpp_tree(content, parser) == parse_tree(content, parser, CppKinds, Str("cpp"))

CppExtensions == {Str("cpp"), Str("cc"), Str("cxx"), Str("hpp"), Str("hxx"), Str("h")}

\* the match with "h" left out of the C++ arm
parse_file_to_chunks_without_h(content, ext, parser) ==
    IF ext = Str("py") THEN parse_python_tree(content, parser)
    ELSE IF ext = Str("rs") THEN parse_rust_tree(content, parser)
    ELSE IF ext = Str("js") THEN parse_javascript_tree(content, parser)
    ELSE IF ext = Str("ts") THEN parse_typescript_tree(content, parser)
    ELSE IF ext = Str("java") THEN parse_java_tree(content, parser)
    ELSE IF ext \in CppExtensions \ {Str("h")} THEN parse_cpp_tree(content, parser)
    ELSE Returned(parse_fallback_line_based(content, ext))

parse_file_to_chunks(content, ext, parser) ==
    IF ext = Str("py") THEN parse_python_tree(content, parser)
    ELSE IF ext = Str("rs") THEN parse_rust_tree(content, parser)
    ELSE IF ext = Str("js") THEN parse_javascript_tree(content, parser)
    ELSE IF ext = Str("ts") THEN parse_typescript_tree(content, parser)
    ELSE IF ext = Str("java") THEN parse_java_tree(content, parser)
    ELSE IF ext \in CppExtensions THEN parse_cpp_tree(content, parser)
    ELSE Returned(parse_fallback_line_based(content, ext))

(***************************************************************************)
(* The inputs of parse_file_to_chunks.  For an extension with an adapter:  *)
(* a program of at most MaxItems top-level items of its language, one per  *)
(* line, with the tree a tree-sitter grammar gives it (an import, a        *)
(* declaration, a declaration that holds a declaration, and an item of no  *)
(* interesting kind that holds a declaration).  For any other extension:   *)
(* at most MaxLines lines, ended by "\n" or "\r\n", the last one maybe not *)
(* ended.                                                                  *)
(***************************************************************************)
Item(text, kind, inner) == [text |-> Str(text), kind |-> kind, inner |-> inner]

Inner(text, kind) == [text |-> Str(text), kind |-> kind]

RustItems ==
    <<Item("use b;", "use_declaration", <<>>),
      Item("fn f(){}", "function_item", <<>>),
      Item("impl S{fn g(){}}", "impl_item", <<Inner("fn g(){}", "function_item")>>),
      Item("mod m{fn h(){}}", "mod_item", <<Inner("fn h(){}", "function_item")>>)>>

PythonItems ==
    <<Item("import b", "import_statement", <<>>),
      Item("def f(): pass", "function_definition", <<>>),
      Item("class A:\n def g(): pass", "class_definition",
           <<Inner("def g(): pass", "function_definition")>>),
      Item("if x:\n def h(): pass", "if_statement",
           <<Inner("def h(): pass", "function_definition")>>)>>

JavaScriptItems ==
    <<Item("import x from \"b\"", "import_statement", <<>>),
      Item("function f(){}", "function_declaration", <<>>),
      Item("function o(){function i(){}}", "function_declaration",
           <<Inner("function i(){}", "function_declaration")>>),
      Item("export function h(){}", "export_statement",
           <<Inner("function h(){}", "function_declaration")>>)>>

TypeScriptItems ==
    <<Item("import x from \"b\"", "import_statement", <<>>),
      Item("interface I{}", "interface_declaration", <<>>),
      Item("function o(){function i(){}}", "function_declaration",
           <<Inner("function i(){}", "function_declaration")>>),
      Item("export class E{}", "export_statement",
           <<Inner("class E{}", "class_declaration")>>)>>

JavaItems ==
    <<Item("import b;", "import_declaration", <<>>),
      Item("enum E{}", "enum_declaration", <<>>),
      Item("class A{class C{}}", "class_declaration",
           <<Inner("class C{}", "class_declaration")>>),
      Item("@interface T{class D{}}", "annotation_type_declaration",
           <<Inner("class D{}", "class_declaration")>>)>>

CppItems ==
    <<Item("#include \"b\"", "preproc_include", <<>>),
      Item("void foo(){}", "function_definition", <<>>),
      Item("namespace M{class C{};}", "namespace_definition",
           <<Inner("class C{}", "class_specifier")>>),
      Item("extern \"C\"{void g(){}}", "linkage_specification",
           <<Inner("void g(){}", "function_definition")>>)>>

AdapterExtensions == {Str("py"), Str("rs"), Str("js"), Str("ts"), Str("java")} \cup CppExtensions

ItemsOf(ext) ==
    IF ext = Str("py") THEN PythonItems
    ELSE IF ext = Str("rs") THEN RustItems
    ELSE IF ext = Str("js") THEN JavaScriptItems
    ELSE IF ext = Str("ts") THEN TypeScriptItems
    ELSE IF ext = Str("java") THEN JavaItems
    ELSE CppItems

\* the byte at which item k of a program starts: the items are one per line
RECURSIVE Offset(_, _)
Offset(items, k) ==
    IF k = 1 THEN 0 ELSE Offset(items, k - 1) + Len(items[k - 1].text) + 1

ProgramText(items, newline) ==
    Join([k \in 1..Len(items) |-> items[k].text], Str("\n"))
        \o (IF newline THEN Str("\n") ELSE <<>>)

InnerNode(item, inner, start) ==
    [kind |-> inner.kind,
     start_byte |-> start + Find(item.text, inner.text) - 1,
     end_byte |-> start + Find(item.text, inner.text) - 1 + Len(inner.text),
     children |-> <<>>]

ItemNode(item, start) ==
    [kind |-> item.kind,
     start_byte |-> start,
     end_byte |-> start + Len(item.text),
     children |-> [k \in 1..Len(item.inner) |-> InnerNode(item, item.inner[k], start)]]

\* Parser::parse(content, None): Some(tree), the root's children in
\* document order
ProgramTree(items) ==
    [ok |-> TRUE, children |-> [k \in 1..Len(items) |-> ItemNode(items[k], Offset(items, k))]]

\* Parser::parse returning None
NoTree == [ok |-> FALSE, children |-> <<>>]

Parsers(items) ==
    {[grammar |-> TRUE, tree |-> ProgramTree(items)],
     [grammar |-> TRUE, tree |-> NoTree],
     [grammar |-> FALSE, tree |-> NoTree]}

Programs(ext) ==
    UNION {{[k \in 1..n |-> ItemsOf(ext)[pick[k]]] : pick \in [1..n -> 1..4]} :
              n \in 0..MaxItems}

Sources(ext) ==
    UNION {{[content |-> ProgramText(items, newline), ext |-> ext, parser |-> parser] :
               newline \in BOOLEAN, parser \in Parsers(items)} :
              items \in Programs(ext)}

FallbackExtensions == {Str("txt"), <<>>, Str("RS")}

LinePool == {<<>>, Str("x"), Str("def f"), Str("  class A"), Str("function g")}

LineEnds == {Str("\n"), Str("\r\n")}

LastEnds == LineEnds \cup {<<>>}

TextOfLines(ls, ends) == Flatten([k \in 1..Len(ls) |-> ls[k] \o ends[k]])

EndsOf(n) == {e \in [1..n -> LastEnds] : \A k \in 1..(n - 1) : e[k] /= <<>>}

Texts ==
    UNION {{TextOfLines(ls, ends) : ls \in [1..n -> LinePool], ends \in EndsOf(n)} :
              n \in 0..MaxLines}

NoParser == [grammar |-> TRUE, tree |-> NoTree]

InitParse ==
    /\ DepsIdle
    /\ SplitIdle
    /\ TrainIdle
    /\ RunIdle
    /\ pc = "start"
    /\ \/ \E ext \in AdapterExtensions : source \in Sources(ext)
       \/ \E ext \in FallbackExtensions, text \in Texts :
             source = [content |-> text, ext |-> ext, parser |-> NoParser]
    /\ result = Returned(<<>>)

\* one call of parse_file_to_chunks(content, ext)
Parse ==
    /\ pc = "start"
    /\ pc' = "parsed"
    /\ result' = parse_file_to_chunks(source.content, source.ext, source.parser)
    /\ UNCHANGED <<depsVars, splitVars, trainVars, parseVars, runVars>>

NextParse == Parse

SpecParse == InitParse /\ [][NextParse]_vars

(***************************************************************************)
(* Properties of parse_file_to_chunks.                                     *)
(***************************************************************************)
KindsOf(ext) ==
    IF ext = Str("py") THEN PythonKinds
    ELSE IF ext = Str("rs") THEN RustKinds
    ELSE IF ext = Str("js") THEN JavaScriptKinds
    ELSE IF ext = Str("ts") THEN TypeScriptKinds
    ELSE IF ext = Str("java") THEN JavaKinds
    ELSE CppKinds

TagOf(ext) ==
    IF ext = Str("py") THEN Str("python")
    ELSE IF ext = Str("rs") THEN Str("rust")
    ELSE IF ext = Str("js") THEN Str("javascript")
    ELSE IF ext = Str("ts") THEN Str("typescript")
    ELSE IF ext = Str("java") THEN Str("java")
    ELSE IF ext \in {Str("cpp"), Str("cc"), Str("cxx"), Str("hpp"), Str("hxx"), Str("h")}
    THEN Str("cpp")
    ELSE ext

HasAdapter(ext) ==
    ext \in {Str("py"), Str("rs"), Str("js"), Str("ts"), Str("java"),
             Str("cpp"), Str("cc"), Str("cxx"), Str("hpp"), Str("hxx"), Str("h")}

RootMatches == SelectSeq(source.parser.tree.children, LAMBDA n : n.kind \in KindsOf(source.ext))

SourceLines == Lines(source.content)

Parsed == pc = "parsed" /\ ~result.panicked

\* nothing matched: a failed parse or no interesting root child for a
\* language with an adapter, no trigger line for any other extension
NoTopLevelMatch ==
    IF HasAdapter(source.ext)
    THEN ~source.parser.tree.ok \/ RootMatches = <<>>
    ELSE \A k \in 1..Len(SourceLines) : ~is_trigger(SourceLines[k])

\* C12: when nothing matches (a language with an adapter and a failed parse
\* or no interesting root child, or another extension and no trigger line),
\* parse_file_to_chunks returns exactly one chunk, and its text is the input,
\* character for character: the empty input, an input without a trailing
\* newline and an input with CRLF line endings included.
C12_FallbackIsWholeInput ==
    (Parsed /\ NoTopLevelMatch) =>
        /\ Len(result.chunks) = 1
        /\ result.chunks[1].text = source.content

RangeOf(node) == SubSeq(source.content, node.start_byte + 1, node.end_byte)

\* C13: an adapter emits one chunk per root child of interesting kind, the
\* child's byte range as text, in document order, and no chunk for a
\* declaration inside another; the ranges emitted are disjoint and increase.
\* A C++ namespace holding a class, followed by a function, gives the
\* namespace and the function.
C13_RootChildrenOnly ==
    (Parsed /\ HasAdapter(source.ext) /\ source.parser.tree.ok /\ RootMatches /= <<>>) =>
        /\ Len(result.chunks) = Len(RootMatches)
        /\ \A k \in 1..Len(RootMatches) : result.chunks[k].text = RangeOf(RootMatches[k])
        /\ \A k \in 1..(Len(RootMatches) - 1) :
              /\ RootMatches[k].start_byte < RootMatches[k].end_byte
              /\ RootMatches[k].end_byte <= RootMatches[k + 1].start_byte
        /\ source.content = Str("namespace M{class C{};}\nvoid foo(){}") =>
              result.chunks = <<Chunk(Str("namespace M{class C{};}"), Str("cpp")),
                                Chunk(Str("void foo(){}"), Str("cpp"))>>

C13_Witness ==
    /\ Parsed
    /\ source.ext = Str("cpp")
    /\ source.content = Str("namespace M{class C{};}\nvoid foo(){}")
    /\ source.parser.tree.ok
    /\ Len(source.parser.tree.children[1].children) = 1
    /\ Len(result.chunks) = 2
    /\ result.chunks[1].text = Str("namespace M{class C{};}")

\* C14: every extension selects a strategy (py, rs, js, ts and java their
\* adapter, cpp, cc, cxx, hpp, hxx and h the C++ adapter, any other the line
\* fallback); a call that returns gives every chunk the tag of the strategy
\* ("rust" for rs, the extension itself for the fallback) and, for a
\* non-empty content, a non-empty chunk list.
C14_DispatchIsTotal ==
    Parsed =>
        /\ \A k \in 1..Len(result.chunks) : result.chunks[k].language = TagOf(source.ext)
        /\ source.content /= <<>> => result.chunks /= <<>>
        /\ HasAdapter(source.ext) =>
              result = parse_tree(source.content, source.parser, KindsOf(source.ext),
                                  TagOf(source.ext))
        /\ ~HasAdapter(source.ext) =>
              result.chunks = parse_fallback_line_based(source.content, source.ext)

C14_Witness ==
    /\ Parsed
    /\ source.ext = Str("h")
    /\ source.content = Str("void foo(){}\n")
    /\ result.chunks = <<Chunk(Str("void foo(){}"), Str("cpp"))>>

ChunkLines(k) == Lines(result.chunks[k].text)

TriggersAfterFirst == {k \in 2..Len(SourceLines) : is_trigger(SourceLines[k])}

\* C20: parse_fallback_line_based cuts before every trigger line but the
\* first line: every chunk after the first begins with a trigger line, no
\* chunk holds a trigger line after its first line, no chunk is empty, the
\* rest of the buffer is the last chunk, and the chunks joined are the
\* input's lines in order, each followed by one newline.
C20_CutsBeforeTriggers ==
    (Parsed /\ ~HasAdapter(source.ext)) =>
        /\ Len(result.chunks) =
              (IF SourceLines = <<>> THEN 0 ELSE Cardinality(TriggersAfterFirst) + 1)
        /\ \A k \in 1..Len(result.chunks) :
              /\ result.chunks[k].text /= <<>>
              /\ k > 1 => is_trigger(ChunkLines(k)[1])
              /\ \A j \in 2..Len(ChunkLines(k)) : ~is_trigger(ChunkLines(k)[j])
        /\ Flatten([k \in 1..Len(result.chunks) |-> result.chunks[k].text])
              = Flatten([k \in 1..Len(SourceLines) |-> SourceLines[k] \o Str("\n")])

C20_Witness ==
    /\ Parsed
    /\ source.ext = Str("txt")
    /\ source.content = Str("def f\r\nx\n  class A")
    /\ result.chunks = <<Chunk(Str("def f\nx\n"), Str("txt")),
                         Chunk(Str("  class A\n"), Str("txt"))>>

(***************************************************************************)
(* src/main.rs: collect_files_parallel, and main's call of                 *)
(* produce_training_json on the list it returns.  The closure of           *)
(* paths.par_iter().filter_map(..) runs once per path, on rayon's workers, *)
(* in any order; collect() gives the results in the order of the paths.    *)
(* A panic of a closure is raised again in the caller once noticed.        *)
(***************************************************************************)
UpperCase == Str("ABCDEFGHIJKLMNOPQRSTUVWXYZ")
LowerCase == Str("abcdefghijklmnopqrstuvwxyz")

to_lowercase(s) ==
    [i \in 1..Len(s) |->
        IF s[i] \in Range(UpperCase)
        THEN LowerCase[CHOOSE k \in 1..Len(UpperCase) : UpperCase[k] = s[i]]
        ELSE s[i]]

\* target.strip_prefix(base), else the target itself; '\' becomes '/'
make_relative(base, target) ==
    Replace(IF StartsWith(target, base \o Str("/"))
            THEN SubSeq(target, Len(base) + 2, Len(target))
            ELSE target,
            Str("\\"), Str("/"))

FileEntry(rel_path, content) == [rel_path |-> rel_path, content |-> content]

Pending == [state |-> "pending", entry |-> None]

\* the chunk texts, collected into one String
joined_content(code_chunks) == Flatten([k \in 1..Len(code_chunks) |-> code_chunks[k].text])

\* the Ok(content) arm of the closure, after the parse
chunked(dir, path, parsed) ==
    IF parsed.panicked THEN [state |-> "panicked", entry |-> None]
    ELSE [state |-> "done",
          entry |-> Some(FileEntry(make_relative(dir, path), joined_content(parsed.chunks)))]

\* the closure of filter_map, for one path
read_and_parse(dir, f) ==
    IF ~f.readable THEN [state |-> "done", entry |-> None]
    ELSE chunked(dir, f.path,
                 parse_file_to_chunks(f.content, to_lowercase(Extension(f.path)), f.parser))

\* the entries in the order the workers finished
collect_as_finished(done, order) == Flatten([k \in 1..Len(order) |-> done[order[k]].entry])

\* filter_map(..).collect() of an indexed parallel iterator
collect(done, order) == Flatten([i \in 1..Len(done) |-> done[i].entry])

(***************************************************************************)
(* The inputs of a run: a directory of at most MaxPaths paths.  A file is  *)
(* a Rust file with an import (of the next file, when there is one) and a  *)
(* function, one with an import and a module, one whose parse fails, a     *)
(* text file with an upper-case extension, or a path that cannot be read;  *)
(* the Rust grammar loads or does not.                                     *)
(***************************************************************************)
Dir == Str("repo")

FileKinds == {"declared", "bare", "unparsed", "text", "unreadable"}

UseItem(target) == [text |-> RustLine(target), kind |-> "use_declaration", inner |-> <<>>]

RunItems(kind, target) ==
    IF kind = "bare" THEN <<UseItem(target), RustItems[4]>>
    ELSE <<UseItem(target), RustItems[2]>>

RunPath(kind, i) ==
    Dir \o Str("/") \o (IF kind = "text" THEN <<Letters[i]>> \o Str(".TXT") ELSE RustPath(i))

RunFile(kind, i, target, grammar) ==
    [path |-> RunPath(kind, i),
     readable |-> kind /= "unreadable",
     content |-> IF kind = "text" THEN Str("x\ndef f")
                 ELSE ProgramText(RunItems(kind, target), FALSE),
     parser |-> IF kind = "text" THEN NoParser
                ELSE [grammar |-> grammar,
                      tree |-> IF kind = "unparsed" THEN NoTree
                               ELSE ProgramTree(RunItems(kind, target))]]

Walks ==
    UNION {{[i \in 1..n |-> RunFile(kinds[i], i, IF i < n THEN i + 1 ELSE 0, grammar)] :
               kinds \in [1..n -> FileKinds], grammar \in BOOLEAN} :
              n \in 1..MaxPaths}

InitRun ==
    /\ SplitIdle
    /\ TrainIdle
    /\ ParseIdle
    /\ pc = "reading"
    /\ files = <<>>
    /\ imports = <<>>
    /\ graph = [nodes |-> <<>>, edges |-> <<>>]
    /\ walk \in Walks
    /\ slots = [i \in 1..Len(walk) |-> Pending]
    /\ finished = <<>>
    /\ result = Failed("", <<>>)

\* a worker runs the closure for path i
ReadAndParse(i) ==
    /\ pc = "reading"
    /\ slots[i].state = "pending"
    /\ slots' = [slots EXCEPT ![i] = read_and_parse(Dir, walk[i])]
    /\ finished' = Append(finished, i)
    /\ UNCHANGED <<pc, result, walk, depsVars, splitVars, trainVars, parseVars>>

\* collect() returns and main extends all_files
Collect ==
    /\ pc = "reading"
    /\ \A i \in 1..Len(slots) : slots[i].state = "done"
    /\ pc' = "collected"
    /\ files' = collect(slots, finished)
    /\ UNCHANGED <<result, imports, graph, splitVars, trainVars, parseVars, runVars>>

\* the panic of a closure reaches main: the process ends, nothing is written
Abort ==
    /\ pc = "reading"
    /\ \E i \in 1..Len(slots) : slots[i].state = "panicked"
    /\ pc' = "aborted"
    /\ UNCHANGED <<result, depsVars, splitVars, trainVars, parseVars, runVars>>

NextRun ==
    \/ \E i \in 1..Len(walk) : ReadAndParse(i)
    \/ Collect
    \/ Abort
    \/ Train

SpecRun == InitRun /\ [][NextRun]_vars

(***************************************************************************)
(* Properties of a run.                                                    *)
(***************************************************************************)
Readable == SelectSeq(walk, LAMBDA f : f.readable)

Collected == pc \in {"collected", "trained"}

ExtOf(f) == to_lowercase(Extension(f.path))

ParseFails(f) == HasAdapter(ExtOf(f)) /\ (~f.parser.grammar \/ ~f.parser.tree.ok)

WholeFile(f) == FileEntry(make_relative(Dir, f.path), f.content)

\* C15: a file whose grammar cannot be loaded or whose parse fails becomes
\* one whole-file chunk, every other file is still chunked, and the run is
\* not aborted.
C15_FailureIsolated ==
    /\ pc /= "aborted"
    /\ \A i \in 1..Len(slots) :
          /\ slots[i].state /= "panicked"
          /\ (slots[i].state = "done" /\ walk[i].readable /\ ParseFails(walk[i])) =>
                slots[i].entry = Some(WholeFile(walk[i]))
    /\ Collected => Len(files) = Len(Readable)

OriginalFiles == [k \in 1..Len(Readable) |-> WholeFile(Readable[k])]

\* C16: in a run with --train-json the dependency edges are those of the
\* files' original texts: an import line of a file that also has a top-level
\* declaration still gives its edge.
C16_EdgesFromOriginalText ==
    Collected =>
        build_dependency_graph(files).edges = build_dependency_graph(OriginalFiles).edges

OwnEntry(f) ==
    FileEntry(make_relative(Dir, f.path),
              joined_content(parse_file_to_chunks(f.content, ExtOf(f), f.parser).chunks))

\* C17: whatever the order in which the workers finish, the list returned is
\* in the order of the walker's paths, the unreadable ones left out, each
\* entry made from its own file only; and nothing after the collection sees
\* the list before every worker has finished.
C17_CollectedInPathOrder ==
    /\ Collected =>
          /\ \A i \in 1..Len(slots) : slots[i].state = "done"
          /\ Len(files) = Len(Readable)
          /\ \A k \in 1..Len(files) : files[k] = OwnEntry(Readable[k])
    /\ pc \in {"reading", "aborted"} =>
          /\ files = <<>>
          /\ result = Failed("", <<>>)
          /\ disk = NoFile

C17_Witness ==
    /\ pc = "collected"
    /\ Len(walk) = 2
    /\ finished = <<2, 1>>
    /\ Len(files) = 2
    /\ files[1].rel_path = Str("a.rs")
    /\ files[1] /= files[2]

(***************************************************************************)
(* Decode failures, in tokenize_and_split and in produce_training_json.    *)
(***************************************************************************)
InitDecode == InitSplit \/ InitTrain

NextDecode == TokenizeAndSplit \/ Train

SpecDecode == InitDecode /\ [][NextDecode]_vars

\* the text of a span: the decoded text, the empty string when decoding fails
SpanText(res) == IF res[1] THEN res[2] ELSE <<>>

WindowIds(p) ==
    Slice(encode_ordinary(chunks[windows[p].chunk].text), windows[p].idx, windows[p].end)

SampleIds(k) == encode(Sampled[k].content, env.bos)

PromptIds(k) == SubSeq(SampleIds(k), 1, result.samples[k].prompt_tokens)

CompletionIds(k) ==
    SubSeq(SampleIds(k), result.samples[k].prompt_tokens + 1, Len(SampleIds(k)))

TrainErrors == {RatioError, CycleError, TokenizerError, SlicePanic, CreateError}

\* C18: a span that cannot be decoded becomes the empty string: its window
\* is still pushed with the chunk's language, its sample with its token
\* counts, and every later window, chunk and file is processed as well.
C18_DecodeFailureNotFatal ==
    /\ pc = "split" =>
          /\ Len(result) = Len(windows)
          /\ \A j \in 1..Len(chunks) :
                Cardinality(PlacesOf(j)) =
                    (IF TokenCount(j) <= max_context THEN 1
                     ELSE Len(window_bounds(0, TokenCount(j), max_context)))
          /\ \A p \in 1..Len(windows) :
                windows[p].idx /= -1 =>
                    /\ result[p].language = chunks[windows[p].chunk].language
                    /\ result[p].text = SpanText(decode(WindowIds(p)))
    /\ pc = "trained" =>
          /\ ~result.ok => result.err \in TrainErrors
          /\ result.written =>
                /\ Len(result.samples) = Len(Sampled)
                /\ \A k \in 1..Len(result.samples) :
                      /\ result.samples[k].prompt = SpanText(decode_skipping(PromptIds(k)))
                      /\ result.samples[k].completion
                            = SpanText(decode_skipping(CompletionIds(k)))
                      /\ result.samples[k].prompt_tokens
                            + result.samples[k].completion_tokens = Len(SampleIds(k))

\* the prompt of the first of two files cannot be decoded, and the second
\* file has its sample
C18_Witness ==
    /\ pc = "trained"
    /\ result.written
    /\ Len(result.samples) = 2
    /\ ~decode_skipping(PromptIds(1))[1]
    /\ result.samples[1].prompt = <<>>
    /\ result.samples[1].prompt_tokens >= 1
    /\ result.samples[2].prompt /= <<>>

(***************************************************************************)
(* src/main.rs: the list main gathers from several input directories, each *)
(* entry's rel_path relative to its own directory, handed to               *)
(* sort_files_by_dependency.  Two directories hold files a.rs, b.rs, ...;  *)
(* a file is empty, imports b twice, or imports a.                         *)
(***************************************************************************)
InputDirs == <<Str("d1"), Str("d2")>>

GatherContents == {<<>>, RustLines(<<<<1, 2>>, <<1, 2>>>>), RustLine(1)}

\* what one directory holds: per name, no file or a file's content
Holdings == [1..MaxNames -> {None} \cup {Some(c) : c \in GatherContents}]

\* collect_files_parallel(input, ..) for one directory
gathered(dir, holding) ==
    Flatten([i \in 1..MaxNames |->
        IF holding[i] = None THEN <<>>
        ELSE <<FileEntry(make_relative(dir, dir \o Str("/") \o RustPath(i)),
                         holding[i][1])>>])

\* `for input in &directories { .. all_files.extend(collected) }`
all_files(holdings) ==
    Flatten([d \in 1..Len(InputDirs) |-> gathered(InputDirs[d], holdings[d])])

InitGather ==
    /\ SplitIdle
    /\ TrainIdle
    /\ ParseIdle
    /\ RunIdle
    /\ pc = "start"
    /\ \E holdings \in [1..Len(InputDirs) -> Holdings] : files = all_files(holdings)
    /\ imports = <<>>
    /\ graph = [nodes |-> <<>>, edges |-> <<>>]
    /\ result = [ok |-> TRUE, err |-> "", files |-> <<>>]

NextGather == SortFiles

SpecGather == InitGather /\ [][NextGather]_vars

Occurrences(seq, x) == Cardinality({k \in 1..Len(seq) : seq[k] = x})

IsPermutation(out, in) ==
    /\ Len(out) = Len(in)
    /\ \A x \in Range(in) \cup Range(out) : Occurrences(out, x) = Occurrences(in, x)

\* C21: when the sort succeeds, the list returned is a permutation of the
\* input list: every input entry, with its rel_path and its content, is in
\* it exactly once, also when two entries carry the same rel_path and when
\* a file imports one target several times.
C21_SortIsPermutation ==
    (pc = "done" /\ result.ok) => IsPermutation(result.files, files)

(***************************************************************************)
(* src/chunker.rs: tokenize_and_split step by step, for every max_context  *)
(* a usize holds, 0 included.  pc is "for" at the head of the loop over    *)
(* the chunks and "while" at the head of the window loop; cursor holds the *)
(* chunk at hand and idx.  results grows without bound when the window     *)
(* loop does not end: it is followed up to MaxPushed chunks.               *)
(***************************************************************************)
MaxPushed == 2 * MaxChars + MaxChunks + 1

token_ids == encode_ordinary(chunks[cursor.chunk].text)

\* (idx + max_context).min(token_ids.len())
window_end == MinOf(cursor.idx + max_context, Len(token_ids))

InitWindows ==
    /\ DepsIdle
    /\ SplitIdle
    /\ TrainIdle
    /\ ParseIdle
    /\ RunIdle
    /\ pc = "start"
    /\ result = <<>>

\* the call tokenize_and_split(chunks, max_context): `let mut results = Vec::new()`
Call ==
    /\ pc = "start"
    /\ pc' = "for"
    /\ \E text \in BoundedSeq(Alphabet, MaxChars) :
         \E k \in 1..MaxChunks : \E c \in Cuts(k, Len(text)) :
            chunks' = ChunksOf(text, k, c)
    /\ max_context' \in 0..MaxContext
    /\ windows' = <<>>
    /\ cursor' = [chunk |-> 1, idx |-> 0]
    /\ result' = <<>>
    /\ UNCHANGED <<depsVars, trainVars, parseVars, runVars>>

\* `if token_ids.len() <= max_context { results.push(chunk) }`
PushWhole ==
    /\ pc = "for"
    /\ cursor.chunk <= Len(chunks)
    /\ Len(token_ids) <= max_context
    /\ result' = Append(result, chunks[cursor.chunk])
    /\ windows' = Append(windows, [chunk |-> cursor.chunk, idx |-> -1, end |-> -1])
    /\ cursor' = [chunk |-> cursor.chunk + 1, idx |-> 0]
    /\ UNCHANGED <<pc, chunks, max_context, depsVars, trainVars, parseVars, runVars>>

\* the else branch: `let mut idx = 0`
EnterWhile ==
    /\ pc = "for"
    /\ cursor.chunk <= Len(chunks)
    /\ Len(token_ids) > max_context
    /\ pc' = "while"
    /\ cursor' = [cursor EXCEPT !.idx = 0]
    /\ UNCHANGED <<result, chunks, max_context, windows, depsVars, trainVars, parseVars,
                   runVars>>

\* one iteration of `while idx < token_ids.len()`
PushWindow ==
    /\ pc = "while"
    /\ cursor.idx < Len(token_ids)
    /\ Len(result) < MaxPushed
    /\ result' = Append(result,
                    [text |-> unwrap_or_default(decode(Slice(token_ids, cursor.idx, window_end))),
                     language |-> chunks[cursor.chunk].language])
    /\ windows' = Append(windows,
                     [chunk |-> cursor.chunk, idx |-> cursor.idx, end |-> window_end])
    /\ cursor' = [cursor EXCEPT !.idx = window_end]
    /\ UNCHANGED <<pc, chunks, max_context, depsVars, trainVars, parseVars, runVars>>

\* the window loop ends: idx has reached token_ids.len()
LeaveWhile ==
    /\ pc = "while"
    /\ cursor.idx >= Len(token_ids)
    /\ pc' = "for"
    /\ cursor' = [chunk |-> cursor.chunk + 1, idx |-> 0]
    /\ UNCHANGED <<result, chunks, max_context, windows, depsVars, trainVars, parseVars,
                   runVars>>

\* the loop over the chunks ends: `results` is returned
ReturnResults ==
    /\ pc = "for"
    /\ cursor.chunk > Len(chunks)
    /\ pc' = "split"
    /\ UNCHANGED <<result, splitVars, depsVars, trainVars, parseVars, runVars>>

NextWindows == Call \/ PushWhole \/ EnterWhile \/ PushWindow \/ LeaveWhile \/ ReturnResults

SpecWindows == InitWindows /\ [][NextWindows]_vars

\* an iteration of the window loop leaves idx larger than it found it
IndexIncreases == (pc = "while" /\ pc' = "while") => cursor'.idx > cursor.idx

\* C22: tokenize_and_split terminates for every chunk list and every
\* max_context, 0 included, because every iteration of the window loop
\* leaves idx strictly larger, until idx reaches the token count.
C22_WindowLoopAdvances == [][IndexIncreases]_vars

\* C23: every sample has a prompt span and a completion span that are not
\* empty: for a file of total >= 2 tokens and a ratio strictly between 0
\* and 1, prompt_tokens >= 1 and completion_tokens >= 1 (total = 2 with
\* r = 0.8 included).
C23_BothSpansNonEmpty ==
    (pc = "trained" /\ InsideUnitInterval(split_ratio) /\ result.written) =>
        \A k \in 1..Len(result.samples) :
            /\ result.samples[k].prompt_tokens >= 1
            /\ result.samples[k].completion_tokens >= 1

(***************************************************************************)
(* produce_training_json and the file at out_path: the destination may     *)
(* exist before the call, holding what an earlier run wrote.  The files    *)
(* are empty, one token long, or an import of the first file (of itself,   *)
(* in the first file: a cycle).                                            *)
(***************************************************************************)
OldFile == [created |-> TRUE, samples |-> <<"old">>]

OverwriteContents == {<<>>, Repeat("x", 2), RustLine(1)}

OverwriteRatios == {Finite(4, 5), Finite(1, 2), Finite(0, 1), Finite(3, 2)}

InitOverwrite ==
    /\ SplitIdle
    /\ ParseIdle
    /\ RunIdle
    /\ pc = "start"
    /\ \E n \in 1..MaxTrainFiles : \E contents \in [1..n -> OverwriteContents] :
         files = TrainFiles(contents)
    /\ imports = <<>>
    /\ graph = [nodes |-> <<>>, edges |-> <<>>]
    /\ split_ratio \in OverwriteRatios
    /\ env \in Environments
    /\ disk \in {NoFile, OldFile}
    /\ result = Failed("", <<>>)

NextOverwrite == Train

SpecOverwrite == InitOverwrite /\ [][NextOverwrite]_vars

\* the steps of a run before the creation of the file
BeforeCreate(steps) == SelectSeq(steps, LAMBDA st : st.op /= "create")

CreateIsLast(steps) ==
    \A k \in 1..Len(steps) : steps[k].op = "create" => k = Len(steps)

====
